---- MODULE Spec2Model ----
(***************************************************************************)
(* Session state controller of the speech-to-text advice page (new5.py).   *)
(*                                                                         *)
(* The page is a Streamlit script: every user interaction with a widget    *)
(* the page shows (a finished recording, a reset of the recorder widget, a *)
(* click on "Get Medical Advice" or on "Clear", an edit of the transcript  *)
(* text area), and every re-run asked for from the page, executes main()   *)
(* once from the top, and st.experimental_rerun() executes it once more.   *)
(* main() is straight-line code with no cancellation of its own: one       *)
(* execution is modelled as a sequence of steps, cut where main() waits    *)
(* for an external service and where it reports to the user, and an event  *)
(* is handled when the execution before it is over.  Events that are       *)
(* waiting together are handed to main() as one run: the latest value of   *)
(* the recorder, every clicked button down.  The two external services     *)
(* answer nondeterministically.                                            *)
(***************************************************************************)
EXTENDS Integers, Sequences, FiniteSets, TLC

\* ------------------------------------------------------------------------
\* Bounds of the model
\* ------------------------------------------------------------------------
\* number of distinct recordings (byte contents) the microphone can deliver
NumPayloads == 2
\* longest text an external service returns, in characters
MaxTextLen == 2

\* ------------------------------------------------------------------------
\* Values
\* ------------------------------------------------------------------------
\* Python's None, for audio_bytes and for the value of the recorder widget
None == 0
\* recordings, compared by content (bytes == bytes)
Payloads == 1..NumPayloads
\* A text is a sequence of fragments, the empty text is << >>.  The texts the
\* external services return are made of the one-character fragments " " (the
\* whitespace str.strip() removes) and "a"; the program's own fixed messages
\* are one fragment each.
Chars == {" ", "a"}
RawTexts == UNION {[1..n -> Chars] : n \in 0..MaxTextLen}

\* the keys of st.session_state the program uses
AUDIO == "audio_bytes"
TRANSCRIPT == "full_transcript"

VARIABLES
    OPENAI_API_KEY,  \* TRUE iff the credential is configured (truthy)
    session_state,   \* st.session_state: a function from the keys set so far
    recorder,        \* value the st_audiorec widget holds (None or a payload)
    widgets,         \* the widgets the page shows: those main() has rendered
    pc,              \* position of the controller: "idle" between runs,
                     \* "transcribing"/"advising" while it waits for a service,
                     \* else the step main() is about to make
    audio_data,      \* main's local audio_data in the current run
    clicked,         \* the buttons that are down in the current run
    event,           \* user event being handled
    rerun,           \* TRUE in the run forced by st.experimental_rerun()
    tCalls,          \* arguments of transcribe_whisper calls, this event
    aCalls,          \* arguments of get_medical_advice_... calls, this event
    msgs,            \* user-visible reports of the current run, in order
    advice,          \* main's local advice: the text written in this run
    raised,          \* TRUE iff an exception left main()
    transcriptOf,    \* payload passed to the call that produced full_transcript
    replaced,        \* TRUE iff this run stored a differing recording
    failed,          \* TRUE iff the stored transcript comes from a call that raised
    run,             \* what the current run did: its gateway calls in order,
                     \* whether the speech-to-text call raised, whether
                     \* transcribe_whisper returned its missing-credential
                     \* message, main's local transcript, whether
                     \* logging.error ran, the prompt submitted and the value
                     \* the Advice Gateway returned
    pre,             \* session state when the current event arrived
    prev             \* summary of the previous event: its kind, whether it
                     \* made one advice call with the transcript it found, and
                     \* whether it left the session state as it found it

vars == <<OPENAI_API_KEY, session_state, recorder, widgets, pc, audio_data, clicked,
          event, rerun, tCalls, aCalls, msgs, advice, raised, transcriptOf,
          replaced, failed, run, pre, prev>>

\* ------------------------------------------------------------------------
\* Pure helpers
\* ------------------------------------------------------------------------
RECURSIVE LStrip(_)
LStrip(s) == IF s # << >> /\ Head(s) = " " THEN LStrip(Tail(s)) ELSE s

RECURSIVE RStrip(_)
RStrip(s) ==
    IF s # << >> /\ s[Len(s)] = " " THEN RStrip(SubSeq(s, 1, Len(s) - 1)) ELSE s

\* str.strip()
Strip(s) == RStrip(LStrip(s))

\* st.session_state with key k set to v
SetKey(ss, k, v) == [x \in (DOMAIN ss) \cup {k} |-> IF x = k THEN v ELSE ss[x]]

\* RecordingBuffer: the stored recording, None while the key is not set
RecordingBuffer == IF AUDIO \in DOMAIN session_state THEN session_state[AUDIO] ELSE None

\* TranscriptText: the stored transcript, empty while the key is not set
TranscriptText ==
    IF TRANSCRIPT \in DOMAIN session_state THEN session_state[TRANSCRIPT] ELSE << >>

\* answers of an external service: it raises, or it returns a text
Outcomes ==
    {[raises |-> TRUE, text |-> << >>]} \cup {[raises |-> FALSE, text |-> t] : t \in RawTexts}

\* ------------------------------------------------------------------------
\* The gateways
\* ------------------------------------------------------------------------
MissingKeyText == <<"Missing OPENAI_API_KEY.">>
FallbackAdvice == <<"Error generating medical advice. Please try again.">>

\* transcribe_whisper(audio_bytes), the speech-to-text service answering
\* `outcome`: ret is the value returned, err whether st.error reported a
\* transcription error, raised whether an exception left the function,
\* external whether the service was reached.
transcribe_whisper(audio_bytes, outcome) ==
    IF ~OPENAI_API_KEY
    THEN [ret |-> MissingKeyText, err |-> FALSE, raised |-> FALSE, external |-> FALSE]
    ELSE IF outcome.raises
    THEN [ret |-> << >>, err |-> TRUE, raised |-> FALSE, external |-> TRUE]
    ELSE [ret |-> Strip(outcome.text), err |-> FALSE, raised |-> FALSE, external |-> TRUE]

\* one line of the prompt: a heading line (**...**), a bullet line (- ...),
\* a plain line, or the place where the transcript is embedded
Line(kind, text) == [kind |-> kind, text |-> text]

\* the six sections the prompt asks for, each a heading line and what the
\* prompt says under it
SectionDiagnosis ==
    << Line("heading", "Most Likely Diagnosis"),
       Line("bullet", "Provide the most likely diagnosis with a brief explanation.") >>

SectionOtherDiagnoses ==
    << Line("heading", "Other Possible Diagnoses"),
       Line("bullet", "A ranked list of other possible diagnoses from most probable to least probable, with reasons.") >>

SectionTests ==
    << Line("heading", "Suggested Tests"),
       Line("bullet", "Provide recommended tests.") >>

SectionPrognosis ==
    << Line("heading", "Prognosis"),
       Line("bullet", "Prognosis for the most likely and other possible conditions.") >>

SectionTreatment ==
    << Line("heading", "Suggested Treatment Plan"),
       Line("bullet", "Provide recommended drugs, with their typical dosages (e.g., mg per day)."),
       Line("bullet", "If you recommend a drug, you must include a dosage or state \"dosage not specified.\""),
       Line("bullet", "You MUST recommend at least one drug, even if hypothetical, and include a dosage (or \"dosage not specified\")."),
       Line("bullet", "Mention any contra-indications or relevant warnings.") >>

SectionSummary ==
    << Line("heading", "Case Summary"),
       Line("plain", "(Short concluding summary)") >>

\* the sections of the prompt in the order it lists them
PromptSections ==
    SectionDiagnosis \o SectionOtherDiagnoses \o SectionTests \o SectionPrognosis
        \o SectionTreatment \o SectionSummary

\* prompt_text, the f-string built from the transcript, line by line (blank
\* lines left out)
prompt_text(transcript) ==
    << Line("plain", "You have the following transcript of a conversation or medical notes:"),
       Line("transcript", transcript),
       Line("plain", "Based on this, provide bullet-point medical advice with the exact headings below."),
       Line("plain", "For each heading:"),
       Line("bullet", "Enclose the heading in double asterisks (e.g. **Heading**)."),
       Line("bullet", "List bullet points, each line beginning with '- '."),
       Line("bullet", "If there's no content for a heading, write 'None.' under that heading.") >>
    \o PromptSections
    \o << Line("plain", "If no data is available for a heading, write 'None.' in that section.") >>

\* the try/except left out: the error of the chat service leaves the function
get_medical_advice_uncaught(transcript, outcome) ==
    IF outcome.raises
    THEN [ret |-> << >>, logged |-> FALSE, raised |-> TRUE,
          prompt |-> prompt_text(transcript)]
    ELSE [ret |-> Strip(outcome.text), logged |-> FALSE, raised |-> FALSE,
          prompt |-> prompt_text(transcript)]

\* get_medical_advice_from_transcript(transcript), the chat service answering
\* `outcome`: ret is the value returned, logged whether logging.error ran,
\* raised whether an exception left the function, prompt the prompt sent.
get_medical_advice_from_transcript(transcript, outcome) ==
    IF outcome.raises
    THEN [ret |-> FallbackAdvice, logged |-> TRUE, raised |-> FALSE,
          prompt |-> prompt_text(transcript)]
    ELSE [ret |-> Strip(outcome.text), logged |-> FALSE, raised |-> FALSE,
          prompt |-> prompt_text(transcript)]

\* a run that has done nothing yet
NewRun == [calls |-> << >>, logged |-> FALSE, prompt |-> << >>, ret |-> << >>,
           sttRaised |-> FALSE, sentinel |-> FALSE, transcript |-> << >>]

\* ------------------------------------------------------------------------
\* The pieces of main()
\* ------------------------------------------------------------------------
\* the credential check left out: main() goes on without a credential
ConfigMissingIgnored == FALSE

\* the credential check inverted: main() goes on only without a credential
ConfigMissingInverted == OPENAI_API_KEY

\* `if not OPENAI_API_KEY:` report the configuration error and return
ConfigMissing == ~OPENAI_API_KEY

\* the two `if ... not in st.session_state` initialisations
InitState(ss) ==
    LET s1 == IF AUDIO \in DOMAIN ss THEN ss ELSE SetKey(ss, AUDIO, None)
    IN  IF TRANSCRIPT \in DOMAIN s1 THEN s1 ELSE SetKey(s1, TRANSCRIPT, << >>)

\* the recording stored on every run, without the comparison of contents
RecordingDiffersAlways(ss, ad) == ad # None

\* `if audio_data is not None: if audio_data != audio_bytes:`
RecordingDiffers(ss, ad) == ad # None /\ ad # ss[AUDIO]

\* the recording stored without emptying the transcript
StoreRecordingKeepTranscript(ss, ad) == SetKey(ss, AUDIO, ad)

\* the two assignments under that test: the recording is stored and the
\* transcript emptied
StoreRecording(ss, ad) == SetKey(SetKey(ss, AUDIO, ad), TRANSCRIPT, << >>)

\* `if audio_bytes is not None and not full_transcript:`
NeedsTranscription(ss) == ss[AUDIO] # None /\ ss[TRANSCRIPT] = << >>

\* the widget's value passed instead of the stored recording
TranscribeArgWidget(ss, ad) == ad

\* the argument main() passes to transcribe_whisper
TranscribeArg(ss, ad) == ss[AUDIO]

\* the test under the advice button inverted
HasTranscriptInverted(ss) == ss[TRANSCRIPT] = << >>

\* a retry loop: the transcription step repeated while the result is empty
AfterTranscribeRetry(ret) == IF ret = << >> THEN "transcribe" ELSE "advice_button"

\* where main() goes on after storing the transcript: line 217 is an `if`,
\* not a loop, so on to the text area and the advice button
AfterTranscribe(ret) == "advice_button"

\* `if st.session_state["full_transcript"]:` under the advice button
HasTranscript(ss) == ss[TRANSCRIPT] # << >>

\* the two assignments under the clear button
ClearState(ss) == SetKey(SetKey(ss, AUDIO, None), TRANSCRIPT, << >>)

\* the buttons of the page
Buttons == {"advice", "clear"}

\* ------------------------------------------------------------------------
\* Initial state: the page is opened, main() is about to run for the first
\* time with nothing recorded, no widget on the page and no button down.
\* ------------------------------------------------------------------------
Init ==
    /\ OPENAI_API_KEY \in BOOLEAN
    /\ session_state = << >>
    /\ recorder = None
    /\ widgets = {}
    /\ pc = "start"
    /\ audio_data = None
    /\ clicked = {}
    /\ event = "load"
    /\ rerun = FALSE
    /\ tCalls = << >>
    /\ aCalls = << >>
    /\ msgs = << >>
    /\ advice = << >>
    /\ raised = FALSE
    /\ transcriptOf = None
    /\ replaced = FALSE
    /\ failed = FALSE
    /\ run = NewRun
    /\ pre = [audio |-> None, transcript |-> << >>, failed |-> FALSE]
    /\ prev = [event |-> "none", advised |-> FALSE, same |-> FALSE]

\* ------------------------------------------------------------------------
\* User events.  A widget can be used only while the page shows it, that is
\* once main() has rendered it; the event starts a run of main() when the
\* run before it is over.
\* ------------------------------------------------------------------------
\* a fresh run of main() begins for the event `kind`, with `buttons` down
\* and the recorder widget holding rec
UserEvent(kind, buttons, rec) ==
    /\ pc = "idle"
    /\ pc' = "start"
    /\ event' = kind
    /\ clicked' = buttons
    /\ recorder' = rec
    /\ rerun' = FALSE
    /\ audio_data' = None
    /\ tCalls' = << >>
    /\ aCalls' = << >>
    /\ msgs' = << >>
    /\ advice' = << >>
    /\ raised' = FALSE
    /\ replaced' = FALSE
    /\ run' = NewRun
    /\ pre' = [audio |-> RecordingBuffer, transcript |-> TranscriptText, failed |-> failed]
    /\ prev' = [event |-> event,
                advised |-> (aCalls = <<pre.transcript>>),
                same |-> (pre.transcript = TranscriptText /\ pre.audio = RecordingBuffer)]
    /\ UNCHANGED <<OPENAI_API_KEY, session_state, widgets, transcriptOf, failed>>

\* the user finishes a recording: the recorder widget now holds its bytes
Record ==
    /\ "recorder" \in widgets
    /\ \E p \in Payloads : UserEvent("record", {}, p)

\* the user resets the recorder widget: st_audiorec() returns None again
RecorderReset ==
    /\ "recorder" \in widgets
    /\ recorder # None
    /\ UserEvent("reset", {}, None)

\* the user edits the transcript text area, or asks the page to run again:
\* no button is down and the recorder holds what it held
Rerender ==
    UserEvent("rerender", {}, recorder)

\* the user clicks "Get Medical Advice"
ClickAdvice ==
    /\ "advice" \in widgets
    /\ UserEvent("advice", {"advice"}, recorder)

\* the user clicks "Clear"
ClickClear ==
    /\ "clear" \in widgets
    /\ UserEvent("clear", {"clear"}, recorder)

\* several events handed to main() as one run: both buttons clicked, or a
\* click and a change of the recorder widget
Coalesced ==
    \E b \in SUBSET Buttons, rec \in Payloads \cup {None} :
        /\ b # {}
        /\ b \subseteq widgets
        /\ b = Buttons \/ rec # recorder
        /\ rec # recorder => "recorder" \in widgets
        /\ UserEvent("coalesced", b, rec)

\* ------------------------------------------------------------------------
\* One run of main()
\* ------------------------------------------------------------------------
\* the page is rendered anew; the credential check and the initialisation of
\* the session state
MainStart ==
    /\ pc = "start"
    /\ IF ConfigMissing
       THEN /\ msgs' = <<"config_error">>
            /\ pc' = "idle"
            /\ widgets' = {}
            /\ UNCHANGED session_state
       ELSE /\ session_state' = InitState(session_state)
            /\ pc' = "recorder"
            /\ msgs' = << >>
            /\ UNCHANGED widgets
    /\ advice' = << >>
    /\ raised' = FALSE
    /\ replaced' = FALSE
    /\ run' = NewRun
    /\ UNCHANGED <<OPENAI_API_KEY, recorder, audio_data, clicked, event, rerun,
                   tCalls, aCalls, transcriptOf, failed, pre, prev>>

\* audio_data = st_audiorec(), the comparison with the stored recording and
\* the two assignments under it
MainRecorder ==
    /\ pc = "recorder"
    /\ audio_data' = recorder
    /\ widgets' = widgets \cup {"recorder"}
    /\ IF RecordingDiffers(session_state, recorder)
       THEN /\ session_state' = StoreRecording(session_state, recorder)
            /\ replaced' = TRUE
            /\ failed' = FALSE
            /\ transcriptOf' = IF session_state'[TRANSCRIPT] = << >>
                               THEN None ELSE transcriptOf
       ELSE UNCHANGED <<session_state, replaced, failed, transcriptOf>>
    /\ pc' = "transcribe"
    /\ UNCHANGED <<OPENAI_API_KEY, recorder, clicked, event, rerun, tCalls,
                   aCalls, msgs, advice, raised, run, pre, prev>>

\* the automatic transcription is due: main() calls the Transcription
\* Gateway and waits for the service; otherwise it goes on to the buttons
MainTranscribe ==
    /\ pc = "transcribe"
    /\ IF NeedsTranscription(session_state)
       THEN /\ tCalls' = Append(tCalls, TranscribeArg(session_state, audio_data))
            /\ run' = [run EXCEPT !.calls = Append(@, "transcribe")]
            /\ pc' = "transcribing"
       ELSE /\ pc' = "advice_button"
            /\ UNCHANGED <<tCalls, run>>
    /\ UNCHANGED <<OPENAI_API_KEY, session_state, recorder, widgets, audio_data, clicked,
                   event, rerun, aCalls, msgs, advice, raised, transcriptOf, replaced,
                   failed, pre, prev>>

\* the transcription service answers: transcribe_whisper is about to report
\* the error, or has returned the text
TranscribeReturn ==
    /\ pc = "transcribing"
    /\ \E outcome \in Outcomes :
         LET r == transcribe_whisper(tCalls[Len(tCalls)], outcome)
         IN  /\ run' = [run EXCEPT !.sttRaised = r.err, !.transcript = r.ret,
                                    !.sentinel = ~r.external]
             /\ raised' = r.raised
             /\ pc' = IF r.raised THEN "idle"
                       ELSE IF r.err THEN "report_error"
                       ELSE "store"
    /\ UNCHANGED <<OPENAI_API_KEY, session_state, recorder, widgets, audio_data, clicked,
                   event, rerun, tCalls, aCalls, msgs, advice, transcriptOf, replaced,
                   failed, pre, prev>>

\* `st.error(f"Error during Whisper transcription: {e}")` and `return ""`
MainReportError ==
    /\ pc = "report_error"
    /\ msgs' = Append(msgs, "transcription_error")
    /\ pc' = "store"
    /\ UNCHANGED <<OPENAI_API_KEY, session_state, recorder, widgets, audio_data, clicked,
                   event, rerun, tCalls, aCalls, advice, raised, transcriptOf, replaced,
                   failed, run, pre, prev>>

\* `st.session_state["full_transcript"] = transcript`
MainStore ==
    /\ pc = "store"
    /\ session_state' = SetKey(session_state, TRANSCRIPT, run.transcript)
    /\ transcriptOf' = tCalls[Len(tCalls)]
    /\ failed' = run.sttRaised
    /\ pc' = AfterTranscribe(run.transcript)
    /\ UNCHANGED <<OPENAI_API_KEY, recorder, widgets, audio_data, clicked, event, rerun,
                   tCalls, aCalls, msgs, advice, raised, replaced, run, pre, prev>>

\* the click is remembered in the session state and answered only once
MainAdviceButtonCached ==
    /\ pc = "advice_button"
    /\ widgets' = widgets \cup {"text_area", "advice"}
    /\ IF "advice" \in clicked /\ HasTranscript(session_state)
       THEN IF "advice" \in DOMAIN session_state
            THEN /\ msgs' = Append(msgs, "advice")
                 /\ pc' = "clear_button"
                 /\ UNCHANGED <<aCalls, session_state, run>>
            ELSE /\ aCalls' = Append(aCalls, session_state[TRANSCRIPT])
                 /\ run' = [run EXCEPT !.calls = Append(@, "advice")]
                 /\ session_state' = SetKey(session_state, "advice", << >>)
                 /\ pc' = "advising"
                 /\ UNCHANGED msgs
       ELSE /\ msgs' = IF "advice" \in clicked THEN Append(msgs, "warning") ELSE msgs
            /\ pc' = "clear_button"
            /\ UNCHANGED <<aCalls, session_state, run>>
    /\ UNCHANGED <<OPENAI_API_KEY, recorder, audio_data, clicked, event, rerun,
                   tCalls, advice, raised, transcriptOf, replaced, failed, pre, prev>>

\* the transcript text area, then `if st.button("Get Medical Advice"):` with
\* a transcript, main() calls the Advice Gateway and waits for the service;
\* without one it warns
MainAdviceButton ==
    /\ pc = "advice_button"
    /\ widgets' = widgets \cup {"text_area", "advice"}
    /\ IF "advice" \in clicked
       THEN IF HasTranscript(session_state)
            THEN /\ aCalls' = Append(aCalls, session_state[TRANSCRIPT])
                 /\ run' = [run EXCEPT !.calls = Append(@, "advice")]
                 /\ pc' = "advising"
                 /\ UNCHANGED msgs
            ELSE /\ msgs' = Append(msgs, "warning")
                 /\ pc' = "clear_button"
                 /\ UNCHANGED <<aCalls, run>>
       ELSE /\ pc' = "clear_button"
            /\ UNCHANGED <<aCalls, msgs, run>>
    /\ UNCHANGED <<OPENAI_API_KEY, session_state, recorder, audio_data, clicked,
                   event, rerun, tCalls, advice, raised, transcriptOf, replaced, failed,
                   pre, prev>>

\* the chat service answers: the gateway has returned the advice
AdviceReturn ==
    /\ pc = "advising"
    /\ \E outcome \in Outcomes :
         LET r == get_medical_advice_from_transcript(aCalls[Len(aCalls)], outcome)
         IN  /\ run' = [run EXCEPT !.logged = r.logged, !.prompt = r.prompt,
                                    !.ret = r.ret]
             /\ raised' = r.raised
             /\ pc' = IF r.raised THEN "idle" ELSE "display"
    /\ UNCHANGED <<OPENAI_API_KEY, session_state, recorder, widgets, audio_data, clicked,
                   event, rerun, tCalls, aCalls, msgs, advice, transcriptOf, replaced,
                   failed, pre, prev>>

\* `st.subheader("Medical Advice")` and `st.write(advice)`
MainDisplay ==
    /\ pc = "display"
    /\ advice' = run.ret
    /\ msgs' = Append(msgs, "advice")
    /\ pc' = "clear_button"
    /\ UNCHANGED <<OPENAI_API_KEY, session_state, recorder, widgets, audio_data, clicked,
                   event, rerun, tCalls, aCalls, raised, transcriptOf, replaced, failed,
                   run, pre, prev>>

\* `if st.button("Clear"):` the two assignments and st.experimental_rerun(),
\* which runs main() again
MainClearButton ==
    /\ pc = "clear_button"
    /\ widgets' = widgets \cup {"clear"}
    /\ IF "clear" \in clicked
       THEN /\ session_state' = ClearState(session_state)
            /\ transcriptOf' = None
            /\ failed' = FALSE
            /\ pc' = "start"
            /\ clicked' = {}
            /\ rerun' = TRUE
            /\ audio_data' = None
       ELSE /\ pc' = "idle"
            /\ UNCHANGED <<session_state, transcriptOf, failed, clicked, rerun,
                           audio_data>>
    /\ UNCHANGED <<OPENAI_API_KEY, recorder, event, tCalls, aCalls, msgs, advice,
                   raised, replaced, run, pre, prev>>

Next ==
    \/ Record
    \/ RecorderReset
    \/ Rerender
    \/ ClickAdvice
    \/ ClickClear
    \/ Coalesced
    \/ MainStart
    \/ MainRecorder
    \/ MainTranscribe
    \/ TranscribeReturn
    \/ MainReportError
    \/ MainStore
    \/ MainAdviceButton
    \/ AdviceReturn
    \/ MainDisplay
    \/ MainClearButton

Spec == Init /\ [][Next]_vars

\* ------------------------------------------------------------------------
\* Helpers of the properties
\* ------------------------------------------------------------------------
\* number of reports of kind m in the current run
Count(m) == Cardinality({i \in 1..Len(msgs) : msgs[i] = m})

\* the current run got past the automatic transcription
PastTranscription ==
    pc \in {"advice_button", "advising", "display", "clear_button", "idle"}

\* the current run of main() has ended (returned, or called for a re-run)
RunEnded == pc = "idle" \/ (pc = "start" /\ rerun)

\* the recorder widget holds no recording that is not stored yet
NothingToStore == recorder = None \/ recorder = pre.audio

\* two advice clicks in a row, the first of which left the session state as
\* it found it, the second arriving on a non-empty transcript, its run over
AdviceTwice ==
    /\ RunEnded
    /\ event = "advice"
    /\ prev.event = "advice"
    /\ prev.same
    /\ pre.transcript # << >>

\* the event being handled is a single one that neither supplies a different
\* recording nor clears
KeepsRecording ==
    /\ event \in {"advice", "reset", "rerender", "record"}
    /\ NothingToStore

\* ------------------------------------------------------------------------
\* C1  Staleness invariant.  In every state a non-empty full_transcript is
\* the text returned by the transcription call made for the audio_bytes now
\* stored, never that of a recording since replaced, and right after a run
\* stored a differing recording the transcript is empty.
\* ------------------------------------------------------------------------
StalenessInvariant ==
    /\ TranscriptText # << >> =>
          RecordingBuffer # None /\ transcriptOf = RecordingBuffer
    /\ (pc = "transcribe" /\ replaced) => TranscriptText = << >>

\* a transcribed recording was replaced by a different one, now transcribed
StalenessWitness ==
    /\ pc = "idle"
    /\ event = "record"
    /\ pre.audio # None
    /\ pre.transcript # << >>
    /\ RecordingBuffer # pre.audio
    /\ TranscriptText # << >>

\* ------------------------------------------------------------------------
\* C2  No automatic retry.  When an event that supplies no different
\* recording (advice click, clear click, recorder reset, plain re-render)
\* arrives after the transcription call for the stored recording has raised
\* (empty transcript stored), handling it never calls the Transcription
\* Gateway for that recording.
\* ------------------------------------------------------------------------
NoAutomaticRetry ==
    (event \in {"advice", "clear", "reset", "rerender"} /\ pre.failed
       /\ pre.transcript = << >>)
        => \A i \in 1..Len(tCalls) : tCalls[i] # pre.audio

\* ------------------------------------------------------------------------
\* C3  Once a clear click has been handled, forced re-run included, the
\* stored recording and the transcript are both empty.
\* ------------------------------------------------------------------------
ClearedIsIdle ==
    (event = "clear" /\ rerun /\ pc = "idle")
        => RecordingBuffer = None /\ TranscriptText = << >>

\* ------------------------------------------------------------------------
\* C4  Handling a clear click calls neither gateway.
\* ------------------------------------------------------------------------
ClearCallsNoGateway ==
    event = "clear" => tCalls = << >> /\ aCalls = << >>

\* ------------------------------------------------------------------------
\* C5  With the credential configured, an advice click that arrives while
\* the transcript is empty is handled without any gateway call, with
\* exactly one warning, and leaves recording and transcript as they were.
\* ------------------------------------------------------------------------
AdviceOnEmptyTranscript ==
    (OPENAI_API_KEY /\ event = "advice" /\ pre.transcript = << >> /\ NothingToStore)
        => /\ tCalls = << >>
           /\ aCalls = << >>
           /\ pc = "idle" => Count("warning") = 1
           /\ RecordingBuffer = pre.audio
           /\ TranscriptText = pre.transcript

\* ------------------------------------------------------------------------
\* C6  Without the credential no event ever leads to a gateway call, the
\* session state is never touched, no widget is ever shown, and every run,
\* when it is over, has reported the configuration error and nothing else.
\* ------------------------------------------------------------------------
NoCredentialNoGateway ==
    ~OPENAI_API_KEY =>
        /\ tCalls = << >>
        /\ aCalls = << >>
        /\ DOMAIN session_state = {}
        /\ widgets = {}
        /\ recorder = None
        /\ clicked = {}
        /\ (RunEnded => msgs = <<"config_error">>)

\* without the credential the page was loaded and then run again twice
NoCredentialWitness ==
    /\ ~OPENAI_API_KEY
    /\ pc = "idle"
    /\ prev.event = "rerender"
    /\ event = "rerender"
    /\ msgs = <<"config_error">>

\* ------------------------------------------------------------------------
\* C7  The advice action leaves the session state as it is, and is not
\* cached: two advice clicks in succession on the same non-empty transcript
\* each make exactly one Advice Gateway call, with that transcript.
\* ------------------------------------------------------------------------
AdviceNoMutationNoCache ==
    /\ [][(pc = "advice_button" \/ pc = "advising" \/ pc = "display")
            => session_state' = session_state]_vars
    /\ [](AdviceTwice =>
            /\ prev.advised
            /\ aCalls = <<pre.transcript>>
            /\ TranscriptText = pre.transcript
            /\ RecordingBuffer = pre.audio)

\* the second of two advice clicks has been handled, each made one call
AdviceTwiceWitness ==
    /\ AdviceTwice
    /\ pc = "idle"
    /\ prev.advised
    /\ Len(aCalls) = 1
    /\ "advice" \in {msgs[i] : i \in 1..Len(msgs)}

\* ------------------------------------------------------------------------
\* C8  A transcribed recording is transcribed once.  While an event that
\* neither supplies a different recording nor clears is handled on a
\* non-empty transcript, no transcription call is made and recording and
\* transcript stay as they were.
\* ------------------------------------------------------------------------
TranscribedOnce ==
    (pre.transcript # << >> /\ KeepsRecording)
        => /\ tCalls = << >>
           /\ TranscriptText = pre.transcript
           /\ RecordingBuffer = pre.audio

\* an advice click was handled in a run where the recorder reported the
\* content already stored and transcribed
TranscribedOnceWitness ==
    /\ pc = "idle"
    /\ event = "advice"
    /\ pre.transcript # << >>
    /\ audio_data # None
    /\ audio_data = RecordingBuffer

\* ------------------------------------------------------------------------
\* C9  A run that reaches the transcription step with a recording stored
\* and an empty transcript calls the Transcription Gateway in that step with
\* exactly the stored recording, and the transcript stored when the service
\* answers is the answer to that call; after recording A and then a
\* different B, the transcription call of B's run is made with B and the
\* transcript stored is the answer to it.
\* ------------------------------------------------------------------------
TranscribesCurrentPayload ==
    /\ [][(pc = "transcribe" /\ RecordingBuffer # None /\ TranscriptText = << >>)
            => /\ tCalls' = Append(tCalls, RecordingBuffer)
               /\ pc' = "transcribing"
               /\ RecordingBuffer' = RecordingBuffer]_vars
    /\ [][pc = "store"
            => /\ tCalls[Len(tCalls)] = RecordingBuffer
               /\ RecordingBuffer' = RecordingBuffer
               /\ TranscriptText' = run.transcript
               /\ transcriptOf' = RecordingBuffer]_vars
    /\ []((event = "record" /\ pre.audio # None /\ recorder # pre.audio
             /\ PastTranscription)
            => /\ RecordingBuffer = recorder
               /\ tCalls = <<recorder>>
               /\ transcriptOf = recorder)

\* A was recorded and transcribed, then B was recorded and transcribed
TranscribesCurrentWitness ==
    /\ pc = "idle"
    /\ event = "record"
    /\ pre.audio # None
    /\ recorder # pre.audio
    /\ tCalls = <<recorder>>
    /\ TranscriptText # << >>
    /\ Len(TranscriptText) = MaxTextLen

\* ------------------------------------------------------------------------
\* C10  Transcription failure is an error value.  No exception leaves
\* main(), and a run in which the speech-to-text call raised has reported
\* the error and ends with the recording it passed to that call still
\* stored and an empty transcript.
\* ------------------------------------------------------------------------
TranscriptionFailureIsValue ==
    /\ ~raised
    /\ (RunEnded /\ run.sttRaised) =>
          /\ Count("transcription_error") = 1
          /\ RecordingBuffer = tCalls[Len(tCalls)]
          /\ TranscriptText = << >>

\* ------------------------------------------------------------------------
\* C11  Advice failure is an error value.  No advice call lets an exception
\* out; when the chat service raises, the gateway returns the fixed fallback
\* string, that string is what is shown as advice, and the advice action
\* leaves the session state as it was.
\* ------------------------------------------------------------------------
AdviceFailureIsValue ==
    /\ [][(pc = "advising" \/ pc = "display") =>
            /\ ~raised'
            /\ session_state' = session_state
            /\ run'.logged => run'.ret = FallbackAdvice]_vars
    /\ [][(pc = "display" /\ run.logged) =>
            pc' = "clear_button" /\ advice' = FallbackAdvice]_vars
    /\ []((run.logged /\ (pc = "clear_button" \/ RunEnded)) =>
            /\ advice = FallbackAdvice
            /\ Count("advice") = 1)

\* the chat service raised in an advice click's run, which is over
AdviceFailureWitness ==
    /\ pc = "idle"
    /\ event = "advice"
    /\ run.logged
    /\ advice = FallbackAdvice

\* ------------------------------------------------------------------------
\* C12  An advice click that arrives on a non-empty transcript is handled
\* with exactly one Advice Gateway call, made with exactly the stored
\* transcript, and the advice shown is the value the gateway returned.
\* ------------------------------------------------------------------------
AdviceCalledOnceVerbatim ==
    /\ (event = "advice" /\ pre.transcript # << >>) =>
          /\ Len(aCalls) <= 1
          /\ \A i \in 1..Len(aCalls) : aCalls[i] = pre.transcript
          /\ TranscriptText = pre.transcript
          /\ tCalls = << >>
    /\ (event = "advice" /\ pre.transcript # << >> /\ RunEnded) =>
          /\ aCalls = <<pre.transcript>>
          /\ run.calls = <<"advice">>
          /\ Count("advice") = 1
          /\ Count("warning") = 0
          /\ advice = run.ret

\* the chat service answered a text to an advice click, and that text is
\* what the page shows
AdviceCalledOnceWitness ==
    /\ pc = "idle"
    /\ event = "advice"
    /\ pre.transcript # << >>
    /\ aCalls = <<pre.transcript>>
    /\ ~run.logged
    /\ Len(run.ret) = MaxTextLen
    /\ advice = run.ret
    /\ msgs = <<"advice">>

\* ------------------------------------------------------------------------
\* C13  Clear is idempotent.  A clear click handled from Idle (no recording,
\* empty transcript) leaves both empty, and after two clear clicks in a row
\* the recording and the transcript are what they were after the first.
\* ------------------------------------------------------------------------
\* a clear click that arrived in Idle has been handled
ClearFromIdle ==
    event = "clear" /\ pc = "idle" /\ pre.audio = None /\ pre.transcript = << >>

\* the second of two clear clicks in a row has been handled
ClearTwice == event = "clear" /\ prev.event = "clear" /\ pc = "idle"

ClearIdempotent ==
    /\ ClearFromIdle => RecordingBuffer = None /\ TranscriptText = << >>
    /\ ClearTwice => RecordingBuffer = pre.audio /\ TranscriptText = pre.transcript

\* the heading lines of a prompt, in order
PromptHeadings(p) ==
    LET IsHeading(l) == l.kind = "heading"
        hs == SelectSeq(p, IsHeading)
    IN  [i \in 1..Len(hs) |-> hs[i].text]

\* ------------------------------------------------------------------------
\* C14  The prompt the Advice Gateway builds asks for exactly seven named
\* sections: every prompt submitted embeds seven heading lines.
\* ------------------------------------------------------------------------
PromptHasSevenHeadings ==
    run.prompt # << >> => Len(PromptHeadings(run.prompt)) = 7

\* ------------------------------------------------------------------------
\* C15  One run of main() makes at most one Transcription Gateway call and
\* at most one Advice Gateway call, the transcription first and over before
\* the other begins.  A transcription call is made in the transcription
\* step, and the run gets to the advice button only with the result of that
\* call stored; an advice call is made in the advice step with the
\* transcript stored at that moment, so in a run that made both the advice
\* call read the transcript that run stored.
\* ------------------------------------------------------------------------
OneCallEachPerRun ==
    /\ [](run.calls \in {<< >>, <<"transcribe">>, <<"advice">>, <<"transcribe", "advice">>})
    /\ [][run'.calls # run.calls /\ run'.calls # << >> =>
            LET call == run'.calls[Len(run'.calls)]
            IN  /\ call = "transcribe" =>
                      pc = "transcribe" /\ pc' = "transcribing"
                /\ call = "advice" =>
                      /\ pc = "advice_button" /\ pc' = "advising"
                      /\ aCalls'[Len(aCalls')] = TranscriptText]_vars
    /\ [][(pc' = "advice_button" /\ pc # "advice_button" /\ run.calls # << >>) =>
            /\ pc = "store"
            /\ TranscriptText' = run.transcript
            /\ transcriptOf' = tCalls[Len(tCalls)]]_vars
    /\ []((run.calls = <<"transcribe", "advice">> /\ PastTranscription) =>
            /\ aCalls[Len(aCalls)] = TranscriptText
            /\ TranscriptText = run.transcript
            /\ transcriptOf = tCalls[Len(tCalls)])

\* a run transcribed the recording and then asked for advice on the result
BothCallsWitness ==
    /\ pc = "idle"
    /\ run.calls = <<"transcribe", "advice">>
    /\ aCalls = <<TranscriptText>>

\* ------------------------------------------------------------------------
\* C16  The missing-credential message of transcribe_whisper is never the
\* stored transcript and never the transcript passed to the Advice Gateway:
\* transcribe_whisper is only ever called with the credential set, so the
\* branch that returns the message is never taken and every transcript
\* stored is an answer of the speech-to-text service.
\* ------------------------------------------------------------------------
SentinelNeverStored ==
    /\ tCalls # << >> => OPENAI_API_KEY
    /\ ~run.sentinel
    /\ TranscriptText # MissingKeyText
    /\ \A i \in 1..Len(aCalls) : aCalls[i] # MissingKeyText

\* transcribe_whisper was called, reached the service and its answer is the
\* transcript now stored
SentinelWitness ==
    /\ OPENAI_API_KEY
    /\ pc = "advice_button"
    /\ run.calls = <<"transcribe">>
    /\ ~run.sttRaised
    /\ TranscriptText = run.transcript
    /\ TranscriptText # << >>

====
